---- MODULE Spec2Model ----
(***************************************************************************)
(* VirtualTreeModel (src/virtualtreemodel/virtualtreemodel.cpp): a lazily  *)
(* loaded shadow tree of InternalNode objects over an external adapter,    *)
(* the forward-scan reconciliation syncNodeList, and the beginUpdate /     *)
(* endUpdate / QueuedUpdate nesting counter that drives it.                *)
(*                                                                         *)
(* Indices are 0-based as in the source; TLA+ sequences are 1-based, so    *)
(* the child at source index i is children[i + 1].                         *)
(***************************************************************************)
EXTENDS Integers, Sequences, FiniteSets, TLC

\* ---------------------------------------------------------------- bounds
\* number of distinct item identities that may appear at the top level
NTop == 3
\* number of distinct item identities that may appear under item 1
NSub == 1
\* largest nesting depth the client's beginUpdate calls are driven to
MaxDepth == 2
\* largest number of QueuedUpdate calls made between two reconciliations
MaxCalls == 2

\* ----------------------------------------------------- adapter's universe
\* nullptr, the item handle of the root (syncTree passes nullptr as parent)
NullItem == 0
\* parent slot of the root node (InternalNode(nullptr, nullptr, 0))
NoNode == -1
TopItems == 1 .. NTop
SubItems == (NTop + 1) .. (NTop + NSub)
Items == TopItems \cup SubItems
\* the item that owns the second level: the first top-level identity
Branch == CHOOSE x \in TopItems : \A y \in TopItems : x <= y
\* the parent handle an item can be listed under
ItemParent(x) == IF x \in TopItems THEN NullItem ELSE Branch

VARIABLES
  live,        \* the external source: parent handle -> sequence of child handles
  root,        \* m_root: the shadow tree, a nested InternalNode record
  m_updating,  \* nesting depth
  m_syncing,   \* true while syncTree runs
  queued,      \* doQueuedUpdate invocations posted to the event loop, not run yet
  clientDepth, \* beginUpdate calls of the client not yet matched by its endUpdate
  stack,       \* activation records of syncNodeList, innermost last
  ctl,         \* position of the running handler: "idle", "syncTree" (line 310),
               \* "refresh" (line 314 done), "crashed"
  events,      \* signals emitted by the running reconciliation, in order
  pre,         \* shadow tree as it was when the running reconciliation started
  quiet,       \* a reconciliation completed and nothing touched source or cache since
  second,      \* the running reconciliation started in a quiet state
  syncCalls,   \* calls of syncTree since construction or since m_updating last left 0
  qCalls,      \* calls of QueuedUpdate since the last syncTree began
  peak,        \* largest clientDepth since clientDepth last was 0
  ret          \* the call of a query method that has just returned: its name,
               \* its argument and its result; NoRet after any other step

vars == << live, root, m_updating, m_syncing, queued, clientDepth, stack, ctl,
           events, pre, quiet, second, syncCalls, qCalls, peak, ret >>

\* no query method has just returned
NoRet == [ op |-> "none" ]

\* ------------------------------------------------------------ InternalNode
\* InternalNode(parent, obj, index); parent is recorded as the item handle of
\* the owning node (NoNode for the root's null parent). valid tells a slot
\* that points to a node from one that does not; created marks the nodes
\* the running reconciliation has allocated
NewNode(parentItem, obj, index) ==
  [ item |-> obj, parent |-> parentItem, parentIndex |-> index,
    children |-> << >>, hasChildrenQueryed |-> FALSE, hasChildren |-> FALSE,
    childInitialized |-> FALSE, valid |-> TRUE, created |-> FALSE ]

\* a children slot that holds no usable pointer (a moved-from unique_ptr or
\* a value read from outside the vector's elements)
BadNode ==
  [ item |-> -1, parent |-> -2, parentIndex |-> 0,
    children |-> << >>, hasChildrenQueryed |-> FALSE, hasChildren |-> FALSE,
    childInitialized |-> FALSE, valid |-> FALSE, created |-> FALSE ]

RECURSIVE NodeAt(_, _)
\* the node reached from t by the child positions in path (1-based)
NodeAt(t, path) ==
  IF path = << >> THEN t ELSE NodeAt(t.children[Head(path)], Tail(path))

RECURSIVE SetAt(_, _, _)
\* t with the node at path replaced by n
SetAt(t, path, n) ==
  IF path = << >> THEN n
  ELSE [t EXCEPT !.children[Head(path)] = SetAt(@, Tail(path), n)]

RECURSIVE PathsOf(_)
\* the paths of all valid nodes of t
PathsOf(t) ==
  {<< >>} \cup UNION { { <<i>> \o p : p \in PathsOf(t.children[i]) } :
                         i \in { j \in 1 .. Len(t.children) : t.children[j].valid } }

RECURSIVE Settled(_)
\* t with the created marks of the finished reconciliation dropped
Settled(t) ==
  [t EXCEPT !.created = FALSE,
            !.children = [ i \in 1 .. Len(t.children) |-> Settled(t.children[i]) ]]

ItemsOf(n) == [ i \in 1 .. Len(n.children) |-> n.children[i].item ]

\* ------------------------------------------------------ VirtualModelAdapter
getItemsCount(src, p) == Len(src[p])
hasItems(src, p) == Len(src[p]) > 0
getItem(src, p, i) == src[p][i + 1]
\* first position >= from holding item, or -1
indexOf(src, p, x, from) ==
  LET hits == { i \in from .. (Len(src[p]) - 1) : src[p][i + 1] = x }
  IN IF hits = {} THEN -1 ELSE CHOOSE i \in hits : \A j \in hits : i <= j

\* ------------------------------------------------ InternalNode's methods
\* a variant of isInitialized without the hasChildrenQueryed branch of
\* lines 55-58
isInitialized_NoProbe(src, n) == n.childInitialized

\* InternalNode::isInitialized, the value returned
isInitialized(src, n) ==
  IF ~n.childInitialized
  THEN IF n.hasChildrenQueryed /\ (n.hasChildren # (getItemsCount(src, n.item) > 0))
       THEN TRUE
       ELSE n.childInitialized
  ELSE TRUE

\* InternalNode::isInitialized, the node it leaves
isInitializedNode(src, n) ==
  [n EXCEPT !.childInitialized = isInitialized(src, n)]

\* InternalNode::loadChildren
loadChildren(src, n) ==
  IF ~n.childInitialized
  THEN [n EXCEPT
          !.children =
             IF hasItems(src, n.item)
             THEN [ k \in 1 .. getItemsCount(src, n.item) |->
                      NewNode(n.item, getItem(src, n.item, k - 1), k - 1) ]
             ELSE n.children,
          !.childInitialized = TRUE]
  ELSE n

\* a variant of eraseChildren that erases the range and leaves the
\* parentIndex of the nodes behind it as it was
eraseChildren_NoRenumber(n, b, e) ==
  [n EXCEPT !.children =
     SubSeq(n.children, 1, b) \o SubSeq(n.children, e + 1, Len(n.children))]

\* InternalNode::eraseChildren(begin() + b, begin() + e)
eraseChildren(n, b, e) ==
  LET ch == n.children
      curParent == ch[b + 1].parentIndex
  IN [n EXCEPT !.children =
        SubSeq(ch, 1, b) \o
        [ i \in 1 .. (Len(ch) - e) |->
            [ch[e + i] EXCEPT !.parentIndex = curParent + (i - 1)] ]]

\* InternalNode::insertedChildren(lastIndex)
insertedChildren(n, lastIndex) ==
  [n EXCEPT !.children =
     [ i \in 1 .. Len(n.children) |->
         IF i - 1 >= lastIndex
         THEN [n.children[i] EXCEPT !.parentIndex = i - 1]
         ELSE n.children[i] ]]

\* the loop of lines 146-152: insertCount nodes emplaced at begin() + cur,
\* cur = srcCur, srcCur + 1, ..., each within the vector
emplaceNodes(src, n, parent, srcCur, destStart, insertCount) ==
  [n EXCEPT !.children =
     SubSeq(n.children, 1, srcCur) \o
     [ i \in 1 .. insertCount |->
         [NewNode(n.item, getItem(src, parent, destStart + i - 1), srcCur + i - 1)
            EXCEPT !.created = TRUE] ] \o
     SubSeq(n.children, srcCur + 1, Len(n.children))]

\* the same loop when begin() + srcCur lies past end(): each emplace
\* move-constructs a new last slot from the old last one (a slot before
\* the buffer when the vector is empty) and assigns the new node outside
\* the vector's elements; what the vector holds when the loop is through
emplacePastEnd(n, insertCount) ==
  LET ch == n.children
      s == Len(ch)
      holes == [ i \in 1 .. insertCount |-> BadNode ]
  IN [n EXCEPT !.children =
        IF s = 0 THEN holes
        ELSE SubSeq(ch, 1, s - 1) \o holes \o << ch[s] >>]

\* what a build may do with the out-of-range emplace
UBOutcomes == {"abort", "shift"}

\* ------------------------------------------------------------- signals
Signal(kind, path, first, last) ==
  [ kind |-> kind, node |-> path, first |-> first, last |-> last ]

\* ---------------------------------------------------- syncNodeList frames
Frame(path, parent) ==
  [ node |-> path, parent |-> parent, srcStart |-> 0, srcCur |-> 0,
    destStart |-> 0, destCur |-> 0, finishing |-> FALSE, pc |-> "scan" ]

Top == stack[Len(stack)]
SetTop(f) == [stack EXCEPT ![Len(stack)] = f]
Running == ctl = "syncTree" /\ stack # << >>
TopIs(pc) == Running /\ Top.pc = pc

Crash ==
  /\ ctl' = "crashed"
  /\ UNCHANGED << live, root, m_updating, m_syncing, queued, clientDepth, stack,
                  events, pre, quiet, second, syncCalls, qCalls, peak >>

\* a variant of lines 117-131 without the srcCur++ of line 167 for a node
\* that is not in the live list
SyncScan_NoAdvance ==
  /\ ret' = NoRet
  /\ TopIs("scan")
  /\ LET f == Top
         n == NodeAt(root, f.node)
         size == Len(n.children)
         finishing == f.srcCur >= size
     IN IF f.srcCur > size
        THEN /\ stack' = SetTop([f EXCEPT !.pc = "return"])
             /\ UNCHANGED << live, root, m_updating, m_syncing, queued,
                             clientDepth, ctl, events, pre, quiet, second, syncCalls, qCalls, peak >>
        ELSE IF ~finishing /\ ~n.children[f.srcCur + 1].valid
        THEN Crash
        ELSE LET destCur == IF finishing THEN 0
                            ELSE indexOf(live, f.parent,
                                         n.children[f.srcCur + 1].item, f.destStart)
                 g == [f EXCEPT !.finishing = finishing, !.destCur = destCur]
             IN /\ IF destCur >= 0
                   THEN IF f.srcCur > f.srcStart
                        THEN /\ stack' = SetTop([g EXCEPT !.pc = "erase"])
                             /\ events' = Append(events,
                                   Signal("beginRemoveRows", f.node,
                                          f.srcStart, f.srcCur - 1))
                        ELSE /\ stack' = SetTop([g EXCEPT !.pc = "insert"])
                             /\ UNCHANGED events
                   ELSE /\ stack' = SetTop(g)
                        /\ UNCHANGED events
                /\ UNCHANGED << live, root, m_updating, m_syncing, queued,
                                clientDepth, ctl, pre, quiet, second, syncCalls, qCalls, peak >>

\* lines 117-131: the loop test, the search of the live list, and the
\* begin of a removal of the skipped nodes
SyncScan ==
  /\ ret' = NoRet
  /\ TopIs("scan")
  /\ LET f == Top
         n == NodeAt(root, f.node)
         size == Len(n.children)
         finishing == f.srcCur >= size
     IN IF f.srcCur > size
        THEN /\ stack' = SetTop([f EXCEPT !.pc = "return"])
             /\ UNCHANGED << live, root, m_updating, m_syncing, queued,
                             clientDepth, ctl, events, pre, quiet, second, syncCalls, qCalls, peak >>
        ELSE IF ~finishing /\ ~n.children[f.srcCur + 1].valid
        THEN Crash
        ELSE LET destCur == IF finishing THEN 0
                            ELSE indexOf(live, f.parent,
                                         n.children[f.srcCur + 1].item, f.destStart)
                 g == [f EXCEPT !.finishing = finishing, !.destCur = destCur]
             IN /\ IF destCur >= 0
                   THEN IF f.srcCur > f.srcStart
                        THEN /\ stack' = SetTop([g EXCEPT !.pc = "erase"])
                             /\ events' = Append(events,
                                   Signal("beginRemoveRows", f.node,
                                          f.srcStart, f.srcCur - 1))
                        ELSE /\ stack' = SetTop([g EXCEPT !.pc = "insert"])
                             /\ UNCHANGED events
                   ELSE /\ stack' = SetTop([g EXCEPT !.srcCur = f.srcCur + 1])
                        /\ UNCHANGED events
                /\ UNCHANGED << live, root, m_updating, m_syncing, queued,
                                clientDepth, ctl, pre, quiet, second, syncCalls, qCalls, peak >>

\* lines 132-134
SyncErase ==
  /\ ret' = NoRet
  /\ TopIs("erase")
  /\ LET f == Top
         n == NodeAt(root, f.node)
     IN IF \E i \in (f.srcStart + 1) .. Len(n.children) : ~n.children[i].valid
        THEN Crash
        ELSE /\ root' = SetAt(root, f.node, eraseChildren(n, f.srcStart, f.srcCur))
             /\ stack' = SetTop([f EXCEPT
                                   !.srcCur = IF ~f.finishing THEN f.srcStart ELSE @,
                                   !.pc = "endRemove"])
             /\ UNCHANGED << live, m_updating, m_syncing, queued, clientDepth,
                             ctl, events, pre, quiet, second, syncCalls, qCalls, peak >>

\* line 135
SyncEndRemove ==
  /\ ret' = NoRet
  /\ TopIs("endRemove")
  /\ events' = Append(events, Signal("endRemoveRows", Top.node, -1, -1))
  /\ stack' = SetTop([Top EXCEPT !.pc = "insert"])
  /\ UNCHANGED << live, root, m_updating, m_syncing, queued, clientDepth,
                  ctl, pre, quiet, second, syncCalls, qCalls, peak >>

\* a variant of lines 137-145 whose beginInsertRows always reports a range
\* of one row
SyncInsert_OneRow ==
  /\ ret' = NoRet
  /\ TopIs("insert")
  /\ LET f == Top
         destCur == IF f.finishing THEN getItemsCount(live, f.parent) ELSE f.destCur
         g == [f EXCEPT !.srcStart = f.srcCur + 1, !.destCur = destCur]
     IN IF destCur > f.destStart
        THEN /\ events' = Append(events,
                   Signal("beginInsertRows", f.node, f.srcCur, f.srcCur))
             /\ stack' = SetTop([g EXCEPT !.pc = "emplace"])
        ELSE /\ stack' = SetTop([g EXCEPT !.pc = "descend"])
             /\ UNCHANGED events
  /\ UNCHANGED << live, root, m_updating, m_syncing, queued, clientDepth,
                  ctl, pre, quiet, second, syncCalls, qCalls, peak >>

\* lines 137-145
SyncInsert ==
  /\ ret' = NoRet
  /\ TopIs("insert")
  /\ LET f == Top
         destCur == IF f.finishing THEN getItemsCount(live, f.parent) ELSE f.destCur
         g == [f EXCEPT !.srcStart = f.srcCur + 1, !.destCur = destCur]
     IN IF destCur > f.destStart
        THEN /\ events' = Append(events,
                   Signal("beginInsertRows", f.node, f.srcCur,
                          f.srcCur + (destCur - f.destStart) - 1))
             /\ stack' = SetTop([g EXCEPT !.pc = "emplace"])
        ELSE /\ stack' = SetTop([g EXCEPT !.pc = "descend"])
             /\ UNCHANGED events
  /\ UNCHANGED << live, root, m_updating, m_syncing, queued, clientDepth,
                  ctl, pre, quiet, second, syncCalls, qCalls, peak >>

\* lines 146-153
SyncEmplace ==
  /\ ret' = NoRet
  /\ TopIs("emplace")
  /\ LET f == Top
         n == NodeAt(root, f.node)
         insertCount == f.destCur - f.destStart
     IN IF f.srcCur <= Len(n.children)
        THEN IF \E i \in (f.srcCur + insertCount + 1) ..
                          (Len(n.children) + insertCount) :
                  ~n.children[i - insertCount].valid
             THEN Crash
             ELSE /\ root' = SetAt(root, f.node,
                       insertedChildren(
                         emplaceNodes(live, n, f.parent, f.srcCur, f.destStart,
                                      insertCount),
                         f.srcCur + insertCount))
                  /\ stack' = SetTop([f EXCEPT !.pc = "endInsert"])
                  /\ UNCHANGED << live, m_updating, m_syncing, queued, clientDepth,
                                  ctl, events, pre, quiet, second, syncCalls, qCalls, peak >>
        ELSE \E out \in UBOutcomes :
               IF out = "abort"
               THEN Crash
               ELSE /\ root' = SetAt(root, f.node,
                         insertedChildren(emplacePastEnd(n, insertCount),
                                          f.srcCur + insertCount))
                    /\ stack' = SetTop([f EXCEPT !.pc = "endInsert"])
                    /\ UNCHANGED << live, m_updating, m_syncing, queued,
                                    clientDepth, ctl, events, pre, quiet, second,
                                    syncCalls, qCalls, peak >>

\* lines 154-157
SyncEndInsert ==
  /\ ret' = NoRet
  /\ TopIs("endInsert")
  /\ LET f == Top
         insertCount == f.destCur - f.destStart
     IN /\ events' = Append(events, Signal("endInsertRows", f.node, -1, -1))
        /\ stack' = SetTop([f EXCEPT !.srcCur = f.srcCur + insertCount,
                                     !.destStart = f.destStart + insertCount,
                                     !.pc = "descend"])
  /\ UNCHANGED << live, root, m_updating, m_syncing, queued, clientDepth,
                  ctl, pre, quiet, second, syncCalls, qCalls, peak >>

\* lines 159-163 and, when there is no recursive call, line 167
SyncDescend ==
  /\ ret' = NoRet
  /\ TopIs("descend")
  /\ LET f == Top
         n == NodeAt(root, f.node)
         g == [f EXCEPT !.destStart = f.destCur + 1]
         cur == f.node \o << f.srcCur + 1 >>
     IN IF ~f.finishing
        THEN LET curNode == n.children[f.srcCur + 1]
             IN /\ root' = SetAt(root, cur, isInitializedNode(live, curNode))
                /\ IF isInitialized(live, curNode)
                   THEN stack' = Append(SetTop([g EXCEPT !.pc = "resume"]),
                                        Frame(cur, curNode.item))
                   ELSE stack' = SetTop([g EXCEPT !.srcCur = f.srcCur + 1,
                                                  !.pc = "scan"])
        ELSE /\ stack' = SetTop([g EXCEPT !.srcCur = f.srcCur + 1, !.pc = "scan"])
             /\ UNCHANGED root
  /\ UNCHANGED << live, m_updating, m_syncing, queued, clientDepth,
                  ctl, events, pre, quiet, second, syncCalls, qCalls, peak >>

\* a variant of the return from the recursive call without line 164: the
\* start of the skipped range is not moved past the matched node
SyncResume_KeepStart ==
  /\ ret' = NoRet
  /\ TopIs("resume")
  /\ stack' = SetTop([Top EXCEPT !.srcCur = Top.srcCur + 1, !.pc = "scan"])
  /\ UNCHANGED << live, root, m_updating, m_syncing, queued, clientDepth,
                  ctl, events, pre, quiet, second, syncCalls, qCalls, peak >>

\* lines 164 and 167, after the recursive call has returned
SyncResume ==
  /\ ret' = NoRet
  /\ TopIs("resume")
  /\ stack' = SetTop([Top EXCEPT !.srcStart = Top.srcCur + 1,
                                 !.srcCur = Top.srcCur + 1,
                                 !.pc = "scan"])
  /\ UNCHANGED << live, root, m_updating, m_syncing, queued, clientDepth,
                  ctl, events, pre, quiet, second, syncCalls, qCalls, peak >>

\* line 169 and the return; the outermost return is syncTree's line 330
SyncReturn ==
  /\ ret' = NoRet
  /\ TopIs("return")
  /\ root' = SetAt(root, Top.node,
                   [NodeAt(root, Top.node) EXCEPT !.childInitialized = TRUE])
  /\ stack' = SubSeq(stack, 1, Len(stack) - 1)
  /\ m_syncing' = IF Len(stack) = 1 THEN FALSE ELSE m_syncing
  /\ UNCHANGED << live, m_updating, queued, clientDepth, ctl, events, pre,
                  quiet, second, syncCalls, qCalls, peak >>

\* ------------------------------------------------------ VirtualTreeModel
\* syncTree, lines 328-329: the call of syncNodeList(*m_root, nullptr)
syncTree ==
  /\ m_syncing' = TRUE
  /\ stack' = << Frame(<< >>, NullItem) >>
  /\ ctl' = "syncTree"
  /\ events' = << >>
  /\ pre' = root
  /\ second' = quiet
  /\ syncCalls' = syncCalls + 1
  /\ qCalls' = 0

\* a variant of endUpdate that calls syncTree at every positive depth
endUpdate_SyncAtAnyDepth ==
  IF m_updating >= 1
  THEN /\ syncTree
       /\ UNCHANGED << live, root, m_updating >>
  ELSE /\ m_updating' = m_updating - 1
       /\ UNCHANGED << live, root, m_syncing, stack, ctl, events, pre, second,
                       syncCalls, qCalls >>

\* endUpdate, lines 309-311 up to the call of syncTree or, when it is not
\* called, to the end (the decrement leaves m_updating # 0 on this path
\* whenever it was positive, so line 314 emits nothing)
endUpdate ==
  IF m_updating = 1
  THEN /\ syncTree
       /\ UNCHANGED << live, root, m_updating >>
  ELSE /\ m_updating' = m_updating - 1
       /\ UNCHANGED << live, root, m_syncing, stack, ctl, events, pre, second,
                       syncCalls, qCalls >>

\* beginUpdate called by the client through VirtualModelInterface
BeginUpdate ==
  /\ ret' = NoRet
  /\ ctl = "idle"
  /\ clientDepth < MaxDepth
  /\ m_updating' = m_updating + 1
  /\ clientDepth' = clientDepth + 1
  /\ syncCalls' = IF m_updating = 0 THEN 0 ELSE syncCalls
  /\ peak' = IF clientDepth + 1 > peak THEN clientDepth + 1 ELSE peak
  /\ UNCHANGED << live, root, m_syncing, queued, stack, ctl, events, pre,
                  quiet, second, qCalls >>

\* endUpdate called by the client, matching one of its beginUpdate calls
EndUpdate ==
  /\ ret' = NoRet
  /\ ctl = "idle"
  /\ clientDepth > 0
  /\ clientDepth' = clientDepth - 1
  /\ peak' = IF clientDepth = 1 THEN 0 ELSE peak
  /\ endUpdate
  /\ UNCHANGED << queued, quiet >>

\* a variant of QueuedUpdate without the test of line 319: every call
\* begins an update and posts a task
QueuedUpdate_NoTest ==
  /\ ret' = NoRet
  /\ ctl = "idle"
  /\ qCalls < MaxCalls
  /\ qCalls' = qCalls + 1
  /\ m_updating' = m_updating + 1
  /\ queued' = queued + 1
  /\ syncCalls' = IF m_updating = 0 THEN 0 ELSE syncCalls
  /\ UNCHANGED << live, root, m_syncing, clientDepth, stack, ctl, events, pre,
                  quiet, second, peak >>

\* a variant of QueuedUpdate without the beginUpdate of line 321: a call at
\* depth 0 posts a task and leaves the depth at 0
QueuedUpdate_NoBegin ==
  /\ ret' = NoRet
  /\ ctl = "idle"
  /\ qCalls < MaxCalls
  /\ qCalls' = qCalls + 1
  /\ IF m_updating = 0
     THEN /\ queued' = queued + 1
          /\ UNCHANGED << m_updating, syncCalls >>
     ELSE UNCHANGED << m_updating, queued, syncCalls >>
  /\ UNCHANGED << live, root, m_syncing, clientDepth, stack, ctl, events, pre,
                  quiet, second, peak >>

\* QueuedUpdate, lines 317-324
QueuedUpdate ==
  /\ ret' = NoRet
  /\ ctl = "idle"
  /\ qCalls < MaxCalls
  /\ qCalls' = qCalls + 1
  /\ IF m_updating = 0
     THEN /\ m_updating' = m_updating + 1
          /\ queued' = queued + 1
          /\ syncCalls' = 0
     ELSE UNCHANGED << m_updating, queued, syncCalls >>
  /\ UNCHANGED << live, root, m_syncing, clientDepth, stack, ctl, events, pre,
                  quiet, second, peak >>

\* the event loop runs a posted doQueuedUpdate, lines 265-268
DoQueuedUpdate ==
  /\ ret' = NoRet
  /\ ctl = "idle"
  /\ queued > 0
  /\ queued' = queued - 1
  /\ endUpdate
  /\ UNCHANGED << clientDepth, quiet, peak >>

\* a variant of lines 311-314 that emits dataChanged only while the depth
\* is still positive
EndUpdateRefresh_WhileOpen ==
  /\ ret' = NoRet
  /\ ctl = "syncTree"
  /\ stack = << >>
  /\ m_updating' = m_updating - 1
  /\ events' = IF m_updating - 1 > 0
               THEN Append(events, Signal("dataChanged", << >>, -1, -1))
               ELSE events
  /\ ctl' = "refresh"
  /\ UNCHANGED << live, root, m_syncing, queued, clientDepth, stack, pre,
                  quiet, second, syncCalls, qCalls, peak >>

\* endUpdate, lines 311-314, after syncTree has returned
EndUpdateRefresh ==
  /\ ret' = NoRet
  /\ ctl = "syncTree"
  /\ stack = << >>
  /\ m_updating' = m_updating - 1
  /\ events' = IF m_updating - 1 = 0
               THEN Append(events, Signal("dataChanged", << >>, -1, -1))
               ELSE events
  /\ ctl' = "refresh"
  /\ UNCHANGED << live, root, m_syncing, queued, clientDepth, stack, pre,
                  quiet, second, syncCalls, qCalls, peak >>

\* endUpdate returns to its caller
EndUpdateReturn ==
  /\ ret' = NoRet
  /\ ctl = "refresh"
  /\ ctl' = "idle"
  /\ events' = << >>
  /\ pre' = BadNode
  /\ quiet' = TRUE
  /\ second' = FALSE
  /\ root' = Settled(root)
  /\ UNCHANGED << live, m_updating, m_syncing, queued, clientDepth, stack,
                  syncCalls, qCalls, peak >>

\* rowCount(index of the node at path) outside a reconciliation, lines 208-218
RowCount ==
  /\ ret' = NoRet
  /\ ctl = "idle"
  /\ ~m_syncing
  /\ \E p \in PathsOf(root) :
       root' = SetAt(root, p, loadChildren(live, NodeAt(root, p)))
  /\ quiet' = FALSE
  /\ UNCHANGED << live, m_updating, m_syncing, queued, clientDepth, stack, ctl,
                  events, pre, second, syncCalls, qCalls, peak >>

\* a variant of lines 274-285 that answers for a node not loaded from the
\* recorded hasChildren instead of asking the adapter
hasChildren_FromRecord(src, n) ==
  IF n.childInitialized THEN Len(n.children) > 0 ELSE n.hasChildren

\* hasChildren, lines 274-285: the value returned for the node n
hasChildren(src, n) ==
  IF n.childInitialized THEN Len(n.children) > 0 ELSE hasItems(src, n.item)

\* hasChildren, lines 274-285: the node it leaves
hasChildrenNode(src, n) ==
  IF n.childInitialized THEN n
  ELSE [n EXCEPT !.hasChildrenQueryed = TRUE, !.hasChildren = hasItems(src, n.item)]

\* hasChildren(index of the node at path), lines 270-286; the invalid index
\* (the empty path, the root) is answered at lines 272-273
HasChildren ==
  /\ ctl = "idle"
  /\ \E p \in PathsOf(root) :
       IF p = << >>
       THEN /\ ret' = [ op |-> "hasChildren", arg |-> p, value |-> TRUE ]
            /\ UNCHANGED root
       ELSE /\ ret' = [ op |-> "hasChildren", arg |-> p,
                        value |-> hasChildren(live, NodeAt(root, p)) ]
            /\ root' = SetAt(root, p, hasChildrenNode(live, NodeAt(root, p)))
  /\ quiet' = FALSE
  /\ UNCHANGED << live, m_updating, m_syncing, queued, clientDepth, stack, ctl,
                  events, pre, second, syncCalls, qCalls, peak >>

\* the roles a view asks data for
Roles == {"DisplayRole", "EditRole"}
\* QVariant(): the empty value
Empty == << >>
\* what the adapter's data(item, role) returns
Payload(item, role) == << item, role >>

\* a variant of data without the test of line 177
data_NoDepthTest(depth, valid, n, role) ==
  IF ~valid THEN [ value |-> Empty, asked |-> FALSE ]
  ELSE [ value |-> Payload(n.item, role), asked |-> TRUE ]

\* data, lines 174-181, for the index of node n (valid: the index is not
\* the root's invalid index) at nesting depth depth: the value returned
\* and whether the adapter's data was called
data(depth, valid, n, role) ==
  IF ~valid THEN [ value |-> Empty, asked |-> FALSE ]
  ELSE IF depth > 0 THEN [ value |-> Empty, asked |-> FALSE ]
  ELSE [ value |-> Payload(n.item, role), asked |-> TRUE ]

\* data(index of the node at path, role), lines 172-182, called by the view
\* between handlers or from a slot while endUpdate runs
Data ==
  /\ ctl # "crashed"
  /\ \E p \in PathsOf(root) : \E role \in Roles :
       LET r == data(m_updating, p # << >>, NodeAt(root, p), role)
       IN ret' = [ op |-> "data", arg |-> p, role |-> role,
                   value |-> r.value, asked |-> r.asked ]
  /\ UNCHANGED << live, root, m_updating, m_syncing, queued, clientDepth, stack,
                  ctl, events, pre, quiet, second, syncCalls, qCalls, peak >>

\* the items of a source that never lists the last top-level identity
FewItems == (TopItems \ {NTop}) \cup SubItems

\* the handle of the item without a parent: the adapter reports it as the
\* parent of the top-level items and lists them under it as under nullptr
RootItem == NTop + NSub + 1
\* the parent handle under which the adapter keeps the list of p
Listed(p) == IF p = RootItem THEN NullItem ELSE p
\* the adapter's getItemParent; the items in loops report themselves
getItemParent(loops, x) ==
  IF x \in loops THEN x
  ELSE IF x = RootItem THEN NullItem
  ELSE IF x \in TopItems THEN RootItem
  ELSE Branch

\* what a build may do with children[index] when index is past the end
IndexOutcomes == {"abort", "wild"}

RECURSIVE getItemNode(_, _, _, _)
\* getItemNode(item), lines 236-254, over the tree t: kind tells a pointer
\* to the node at path ("node") from nullptr ("null"), from a call through
\* the nullptr that the recursive call returned ("fault", line 247) and
\* from an element read past the end of children ("past", line 248);
\* tree is t after the loadChildren calls made on the way
getItemNode(src, loops, t, item) ==
  LET parentItem == getItemParent(loops, item)
  IN IF parentItem = item THEN [ kind |-> "null", path |-> << >>, tree |-> t ]
     ELSE IF parentItem = NullItem THEN [ kind |-> "node", path |-> << >>, tree |-> t ]
     ELSE LET parentNode == getItemNode(src, loops, t, parentItem)
              index == indexOf(src, Listed(parentItem), item, 0)
          IN IF parentNode.kind \in {"fault", "past"} THEN parentNode
             ELSE IF index < 0
             THEN [ kind |-> "null", path |-> << >>, tree |-> parentNode.tree ]
             ELSE IF parentNode.kind = "null"
             THEN [ kind |-> "fault", path |-> << >>, tree |-> parentNode.tree ]
             ELSE LET loaded == loadChildren(src, NodeAt(parentNode.tree, parentNode.path))
                      tree == SetAt(parentNode.tree, parentNode.path, loaded)
                  IN IF index < Len(loaded.children) /\ loaded.children[index + 1].valid
                     THEN [ kind |-> "node", path |-> parentNode.path \o << index + 1 >>,
                            tree |-> tree ]
                     ELSE [ kind |-> "past", path |-> parentNode.path \o << index + 1 >>,
                            tree |-> tree ]

\* getItemIndex, lines 293-300, from what getItemNode returned: the invalid
\* index for nullptr and for the root, else the row and the node
getItemIndex(r) ==
  IF r.kind = "node" /\ r.path # << >>
  THEN << NodeAt(r.tree, r.path).parentIndex, r.path >>
  ELSE << >>

\* getItemNode(item) / getItemIndex(item) called by the client between
\* handlers, lines 234-255 and 293-300; at most one item reports itself
\* as its own parent
GetItemNode ==
  /\ ctl = "idle"
  /\ \E item \in FewItems \cup {RootItem} :
     \E loops \in {{}} \cup { {x} : x \in FewItems } :
       LET r == getItemNode(live, loops, root, item)
           answer(kind) == [ op |-> "getItemNode", arg |-> item, loops |-> loops,
                             kind |-> kind, path |-> r.path,
                             index |-> getItemIndex(r) ]
       IN /\ root' = r.tree
          /\ IF r.kind = "fault"
             THEN ret' = answer("fault") /\ ctl' = "crashed"
             ELSE IF r.kind = "past"
             THEN \E out \in IndexOutcomes :
                    IF out = "abort"
                    THEN ret' = answer("fault") /\ ctl' = "crashed"
                    ELSE ret' = answer("past") /\ UNCHANGED ctl
             ELSE ret' = answer(r.kind) /\ UNCHANGED ctl
  /\ quiet' = FALSE
  /\ UNCHANGED << live, m_updating, m_syncing, queued, clientDepth, stack,
                  events, pre, second, syncCalls, qCalls, peak >>

\* ------------------------------------------------------- the live source
Range(s) == { s[i] : i \in 1 .. Len(s) }
InsertAt(s, pos, x) == SubSeq(s, 1, pos) \o << x >> \o SubSeq(s, pos + 1, Len(s))
RemoveAt(s, pos) == SubSeq(s, 1, pos) \o SubSeq(s, pos + 2, Len(s))
Parents == {NullItem, Branch}

\* the source gains an item of the set S under its parent
SourceGains(S) ==
  /\ ret' = NoRet
  /\ ctl = "idle"
  /\ \E x \in S : \E pos \in 0 .. Len(live[ItemParent(x)]) :
       /\ x \notin Range(live[ItemParent(x)])
       /\ live' = [live EXCEPT ![ItemParent(x)] = InsertAt(@, pos, x)]
  /\ quiet' = FALSE
  /\ UNCHANGED << root, m_updating, m_syncing, queued, clientDepth, stack, ctl,
                  events, pre, second, syncCalls, qCalls, peak >>

SrcInsert == SourceGains(Items)
SrcInsertTop == SourceGains(TopItems)
SrcInsertFew == SourceGains(FewItems)

\* the source loses the item at some position under one of its parents
SrcRemove ==
  /\ ret' = NoRet
  /\ ctl = "idle"
  /\ \E p \in Parents : \E pos \in 0 .. (Len(live[p]) - 1) :
       live' = [live EXCEPT ![p] = RemoveAt(@, pos)]
  /\ quiet' = FALSE
  /\ UNCHANGED << root, m_updating, m_syncing, queued, clientDepth, stack, ctl,
                  events, pre, second, syncCalls, qCalls, peak >>

\* ------------------------------------------------------------------ Init
Injective(f) == \A i, j \in DOMAIN f : f[i] = f[j] => i = j
Orders(S) == { f \in [1 .. Cardinality(S) -> S] : Injective(f) }
\* the duplicate-free sequences over S
DupFree(S) == UNION { Orders(T) : T \in SUBSET S }

\* the constructor, lines 100-107: a root node and one syncTree over it,
\* which inserts one unloaded node per top-level item
Constructed(src) ==
  LET r == NewNode(NoNode, NullItem, 0)
      filled == insertedChildren(
                  emplaceNodes(src, r, NullItem, 0, 0, getItemsCount(src, NullItem)),
                  getItemsCount(src, NullItem))
  IN Settled([filled EXCEPT !.childInitialized = TRUE])

Init ==
  /\ \E top \in DupFree(TopItems) : \E sub \in DupFree(SubItems) :
       live = [ p \in {NullItem} \cup Items |->
                  IF p = NullItem THEN top ELSE IF p = Branch THEN sub ELSE << >> ]
  /\ root = Constructed(live)
  /\ m_updating = 0
  /\ m_syncing = FALSE
  /\ queued = 0
  /\ clientDepth = 0
  /\ stack = << >>
  /\ ctl = "idle"
  /\ events = << >>
  /\ pre = BadNode
  /\ quiet = TRUE
  /\ second = FALSE
  /\ syncCalls = 1
  /\ qCalls = 0
  /\ peak = 0
  /\ ret = NoRet

Next ==
  \/ BeginUpdate
  \/ EndUpdate
  \/ QueuedUpdate
  \/ DoQueuedUpdate
  \/ SyncScan
  \/ SyncErase
  \/ SyncEndRemove
  \/ SyncInsert
  \/ SyncEmplace
  \/ SyncEndInsert
  \/ SyncDescend
  \/ SyncResume
  \/ SyncReturn
  \/ EndUpdateRefresh
  \/ EndUpdateReturn
  \/ RowCount
  \/ SrcInsert
  \/ SrcRemove

Spec == Init /\ [][Next]_vars

\* the same program over a source whose top-level items never have children
InitTop == Init /\ live[Branch] = << >>

NextTop ==
  \/ BeginUpdate
  \/ EndUpdate
  \/ QueuedUpdate
  \/ DoQueuedUpdate
  \/ SyncScan
  \/ SyncErase
  \/ SyncEndRemove
  \/ SyncInsert
  \/ SyncEmplace
  \/ SyncEndInsert
  \/ SyncDescend
  \/ SyncResume
  \/ SyncReturn
  \/ EndUpdateRefresh
  \/ EndUpdateReturn
  \/ RowCount
  \/ SrcInsertTop
  \/ SrcRemove

SpecTop == InitTop /\ [][NextTop]_vars

\* the program and its view over a source without the last top-level
\* identity: the view also asks hasChildren
InitView == Init /\ NTop \notin Range(live[NullItem])

NextView ==
  \/ BeginUpdate
  \/ EndUpdate
  \/ QueuedUpdate
  \/ DoQueuedUpdate
  \/ SyncScan
  \/ SyncErase
  \/ SyncEndRemove
  \/ SyncInsert
  \/ SyncEmplace
  \/ SyncEndInsert
  \/ SyncDescend
  \/ SyncResume
  \/ SyncReturn
  \/ EndUpdateRefresh
  \/ EndUpdateReturn
  \/ RowCount
  \/ HasChildren
  \/ SrcInsertFew
  \/ SrcRemove

SpecView == InitView /\ [][NextView]_vars

\* the program over a source without the last top-level identity and a
\* client that resolves items to nodes
NextResolve ==
  \/ BeginUpdate
  \/ EndUpdate
  \/ QueuedUpdate
  \/ DoQueuedUpdate
  \/ SyncScan
  \/ SyncErase
  \/ SyncEndRemove
  \/ SyncInsert
  \/ SyncEmplace
  \/ SyncEndInsert
  \/ SyncDescend
  \/ SyncResume
  \/ SyncReturn
  \/ EndUpdateRefresh
  \/ EndUpdateReturn
  \/ RowCount
  \/ GetItemNode
  \/ SrcInsertFew
  \/ SrcRemove

SpecResolve == InitView /\ [][NextResolve]_vars

\* the program over a source of top-level items and a view that reads data
NextRead ==
  \/ BeginUpdate
  \/ EndUpdate
  \/ QueuedUpdate
  \/ DoQueuedUpdate
  \/ SyncScan
  \/ SyncErase
  \/ SyncEndRemove
  \/ SyncInsert
  \/ SyncEmplace
  \/ SyncEndInsert
  \/ SyncDescend
  \/ SyncResume
  \/ SyncReturn
  \/ EndUpdateRefresh
  \/ EndUpdateReturn
  \/ RowCount
  \/ Data
  \/ SrcInsertTop
  \/ SrcRemove

SpecRead == InitTop /\ [][NextRead]_vars

\* a step of the running syncNodeList
SyncStep ==
  \/ SyncScan
  \/ SyncErase
  \/ SyncEndRemove
  \/ SyncInsert
  \/ SyncEmplace
  \/ SyncEndInsert
  \/ SyncDescend
  \/ SyncResume
  \/ SyncReturn

NextLive ==
  \/ BeginUpdate
  \/ EndUpdate
  \/ QueuedUpdate
  \/ DoQueuedUpdate
  \/ SyncStep
  \/ EndUpdateRefresh
  \/ EndUpdateReturn
  \/ RowCount
  \/ SrcInsertFew
  \/ SrcRemove

\* a handler that has been entered runs on to its end (the engine is
\* single-threaded and its handlers do not wait); the event loop runs a
\* posted task; the client ends every update it has begun, at every
\* nesting level, however often it begins new ones inside it
Fairness ==
  /\ WF_vars(SyncStep)
  /\ WF_vars(EndUpdateRefresh)
  /\ WF_vars(EndUpdateReturn)
  /\ WF_vars(DoQueuedUpdate)
  /\ \A k \in 1 .. MaxDepth : SF_vars(EndUpdate /\ clientDepth = k)

SpecLive == InitView /\ [][NextLive]_vars /\ Fairness

\* ------------------------------------------------------------ properties
\* the frame about to return from syncNodeList (line 169 reached): the
\* children of its node are as the call leaves them
AtReturn == TopIs("return")
\* syncTree has returned to endUpdate, which has not gone on yet
SyncTreeReturned == ctl = "syncTree" /\ stack = << >>
\* the signals the running reconciliation emitted about the node at path
EventsAt(path) ==
  LET about(e) == e.node = path IN SelectSeq(events, about)
\* the reconciliation of the root's children is about to return
RootAtReturn == AtReturn /\ Len(stack) = 1
NoDuplicates(s) == \A i, j \in 1 .. Len(s) : s[i] = s[j] => i = j

\* C1 (order fidelity): when syncNodeList(node, parent) returns, the item
\* identities of node.children equal the live sequence of parent, in
\* length and order, whatever childInitialized the cached children had.
C1_OrderFidelity ==
  AtReturn => ItemsOf(NodeAt(root, Top.node)) = live[Top.parent]

RECURSIVE Shape(_)
\* the item identities of a tree, level by level
Shape(t) ==
  [ item |-> t.item,
    children |-> [ i \in 1 .. Len(t.children) |-> Shape(t.children[i]) ] ]

\* C2 (idempotence): a syncTree run that follows a completed syncTree run
\* with no source mutation and no other engine call in between emits no
\* beginRemoveRows / beginInsertRows and leaves every node's children as
\* they were, whatever state the first run started from.
C2_Idempotence ==
  (SyncTreeReturned /\ second) => (events = << >> /\ Shape(root) = Shape(pre))

\* a beginRemoveRows / beginInsertRows of the running syncNodeList has been
\* emitted and its endRemoveRows / endInsertRows has not
InBracket == Running /\ Top.pc \in {"erase", "endRemove", "emplace", "endInsert"}

\* every slot of every children vector holds a node that records this
\* slot and this owner
PositionsOK(t) ==
  \A p \in PathsOf(t) :
    LET n == NodeAt(t, p)
    IN \A i \in 1 .. Len(n.children) :
         /\ n.children[i].valid
         /\ n.children[i].parentIndex = i - 1
         /\ n.children[i].parent = n.item

\* C3 (position invariant): after every completed structural operation
\* (loadChildren, a remove-range at endRemoveRows, an insert-range at
\* endInsertRows, the end of a reconciliation) every node n and index i
\* have n.children[i].parentIndex = i and n.children[i].parent = n.
C3_PositionInvariant ==
  (ctl # "crashed" /\ ~InBracket) => PositionsOK(root)

\* live is cached with one block of k >= 1 items, none of them cached,
\* added at position p
BlockInserted(cached, now, p, k) ==
  /\ k >= 1
  /\ p \in 0 .. Len(cached)
  /\ Len(now) = Len(cached) + k
  /\ SubSeq(now, 1, p) = SubSeq(cached, 1, p)
  /\ SubSeq(now, p + k + 1, Len(now)) = SubSeq(cached, p + 1, Len(cached))
  /\ \A i \in (p + 1) .. (p + k) : now[i] \notin Range(cached)

\* the root's children are the cached nodes, none created by this
\* reconciliation, except for the k created ones at p .. p + k - 1,
\* each at its live index
KeptAround(p, k) ==
  /\ ItemsOf(root) = live[NullItem]
  /\ \A i \in 1 .. Len(root.children) :
       /\ root.children[i].valid
       /\ root.children[i].parentIndex = i - 1
       /\ root.children[i].created = (i - 1 \in p .. (p + k - 1))

\* C4 (insert scenario): when the live list is the cached list with one
\* contiguous block of new items added, reconciliation emits exactly one
\* insert-range covering the block and no remove-range, and keeps every
\* cached node, shifted to its live index, whether or not the cached
\* nodes have childInitialized set.
C4_InsertScenario ==
  RootAtReturn =>
    \A p \in 0 .. Len(pre.children) : \A k \in 1 .. Len(live[NullItem]) :
      BlockInserted(ItemsOf(pre), live[NullItem], p, k) =>
        /\ EventsAt(<< >>) =
             << Signal("beginInsertRows", << >>, p, p + k - 1),
                Signal("endInsertRows", << >>, -1, -1) >>
        /\ KeptAround(p, k)

\* live is cached with the block of k >= 1 items at p .. p + k - 1 deleted
BlockRemoved(cached, now, p, k) ==
  /\ k >= 1
  /\ p + k <= Len(cached)
  /\ now = SubSeq(cached, 1, p) \o SubSeq(cached, p + k + 1, Len(cached))

\* C5 (remove scenario): when the live list is the cached list with one
\* contiguous block deleted, reconciliation emits exactly one remove-range
\* covering the former positions of the block and no insert-range, and the
\* surviving nodes are kept, renumbered to their live indices.
C5_RemoveScenario ==
  RootAtReturn =>
    \A p \in 0 .. Len(pre.children) : \A k \in 1 .. Len(pre.children) :
      BlockRemoved(ItemsOf(pre), live[NullItem], p, k) =>
        /\ EventsAt(<< >>) =
             << Signal("beginRemoveRows", << >>, p, p + k - 1),
                Signal("endRemoveRows", << >>, -1, -1) >>
        /\ KeptAround(0, 0)

\* a reconciliation of the root's children is about to return after it
\* removed an inner block of a cached list of three or more nodes
C5_Witness ==
  /\ RootAtReturn
  /\ Len(pre.children) >= 3
  /\ \E p \in 1 .. Len(pre.children) : \E k \in 1 .. Len(pre.children) :
       /\ p + k < Len(pre.children)
       /\ BlockRemoved(ItemsOf(pre), live[NullItem], p, k)
  /\ Len(EventsAt(<< >>)) = 2

\* the root's cached children are two nodes and the live list holds their
\* items swapped
Swapped ==
  /\ Len(pre.children) = 2
  /\ pre.children[1].item # pre.children[2].item
  /\ live[NullItem] = << pre.children[2].item, pre.children[1].item >>

RECURSIVE LCS(_, _)
\* length of a longest common subsequence of a and b
LCS(a, b) ==
  IF a = << >> \/ b = << >> THEN 0
  ELSE IF Head(a) = Head(b) THEN 1 + LCS(Tail(a), Tail(b))
  ELSE LET x == LCS(Tail(a), b)
           y == LCS(a, Tail(b))
       IN IF x >= y THEN x ELSE y

\* fewest removals plus insertions of single items that turn a into b
MinEdits(a, b) == Len(a) + Len(b) - 2 * LCS(a, b)

RECURSIVE RowsOf(_, _)
\* the number of rows covered by the begin signals of one kind in evs
RowsOf(evs, kind) ==
  IF evs = << >> THEN 0
  ELSE (IF Head(evs).kind = kind THEN Head(evs).last - Head(evs).first + 1 ELSE 0)
       + RowsOf(Tail(evs), kind)

\* the begin signals among evs, in order
Begins(evs) ==
  LET begin(e) == e.kind \in {"beginRemoveRows", "beginInsertRows"}
  IN SelectSeq(evs, begin)

\* the rows a remove-range covered, counted in the positions of the cached
\* list as it was before the pass: rows removed earlier are added back and
\* rows inserted earlier are taken out
OldFirst(b, i) ==
  b[i].first + RowsOf(SubSeq(b, 1, i - 1), "beginRemoveRows")
             - RowsOf(SubSeq(b, 1, i - 1), "beginInsertRows")
OldLast(b, i) == OldFirst(b, i) + (b[i].last - b[i].first)

\* two ranges of one kind that touch: remove-ranges in the positions of the
\* list before the pass, insert-ranges in the positions they were given
TouchingRanges(b) ==
  \E i, j \in 1 .. Len(b) :
    /\ i < j
    /\ b[i].kind = b[j].kind
    /\ IF b[i].kind = "beginRemoveRows"
       THEN OldFirst(b, j) = OldLast(b, i) + 1
       ELSE b[j].first = b[i].last + 1

\* every cached child of the root had childInitialized set when the pass began
AllLoaded(t) == \A i \in 1 .. Len(t.children) : t.children[i].childInitialized

TouchingNeighbours(b) ==
  \E i \in 1 .. (Len(b) - 1) : TouchingRanges(SubSeq(b, i, i + 1))

DepthAccounted == ctl = "idle" => m_updating = clientDepth + queued

\* between handlers, no syncTree has run since the depth left 0 while the
\* depth is positive, and exactly one has once it is back to 0
OneSyncPerBatch ==
  /\ syncCalls <= 1
  /\ (ctl = "idle" /\ m_updating > 0) => syncCalls = 0
  /\ (ctl = "idle" /\ m_updating = 0) => syncCalls = 1
  /\ ctl = "syncTree" => (m_updating = 1 /\ syncCalls = 1)
  /\ ctl = "refresh" => (m_updating = 0 /\ syncCalls = 1)

\* the step is a beginUpdate of the client: it starts no reconciliation
ClientBeginStep ==
  clientDepth' = clientDepth + 1 =>
    /\ m_updating' = m_updating + 1
    /\ ctl' = "idle"
    /\ syncCalls' = 0
    /\ UNCHANGED << root, stack, events, m_syncing >>

\* the step is an endUpdate of the client entered at depth > 1: it only
\* lowers the depth
ClientInnerEndStep ==
  (clientDepth' = clientDepth - 1 /\ m_updating > 1) =>
    /\ m_updating' = m_updating - 1
    /\ ctl' = "idle"
    /\ UNCHANGED << root, stack, events, m_syncing, syncCalls >>

\* the step is an endUpdate of the client entered at depth 1: it calls
\* syncTree, the first call since the depth left 0
ClientOuterEndStep ==
  (clientDepth' = clientDepth - 1 /\ m_updating = 1) =>
    /\ clientDepth' = 0
    /\ ctl' = "syncTree"
    /\ m_syncing'
    /\ syncCalls = 0
    /\ syncCalls' = 1

\* C8 (batch collapsing): starting from depth 0, N >= 1 properly nested
\* beginUpdate / endUpdate pairs call syncTree exactly once, inside the
\* outermost endUpdate; no beginUpdate and no endUpdate entered at depth
\* > 1 runs a reconciliation, and the depth is 0 again afterwards.
C8_BatchCollapsing ==
  /\ [](DepthAccounted /\ OneSyncPerBatch)
  /\ [][ClientBeginStep /\ ClientInnerEndStep /\ ClientOuterEndStep]_vars

\* the client has nested MaxDepth pairs from depth 0 and closed all but
\* the outermost; no reconciliation has run and none is queued
C8_Witness ==
  /\ ctl = "idle"
  /\ MaxDepth >= 2
  /\ peak = MaxDepth
  /\ clientDepth = 1
  /\ m_updating = 1
  /\ queued = 0
  /\ syncCalls = 0

\* the step is a call of QueuedUpdate at depth 0: it raises the depth to 1
\* and posts the one deferred task
FirstQueuedStep ==
  (qCalls' = qCalls + 1 /\ m_updating = 0) =>
    /\ m_updating' = 1
    /\ queued = 0
    /\ queued' = 1
    /\ UNCHANGED << root, stack, events, ctl, m_syncing, clientDepth >>

\* the step is a call of QueuedUpdate at depth > 0: nothing of the model
\* or of the event loop changes
LaterQueuedStep ==
  (qCalls' = qCalls + 1 /\ m_updating > 0) =>
    UNCHANGED << m_updating, queued, root, live, stack, events, ctl,
                 m_syncing, clientDepth, syncCalls >>

\* the step runs the deferred task while the client has no update open:
\* it calls syncTree, the first call since the depth left 0
TaskRunsStep ==
  (queued' = queued - 1 /\ clientDepth = 0) =>
    /\ queued' = 0
    /\ ctl' = "syncTree"
    /\ m_syncing'
    /\ syncCalls = 0
    /\ syncCalls' = 1

\* C9 (coalescing): starting from depth 0, K > 1 calls of QueuedUpdate made
\* before the deferred doQueuedUpdate task executes post exactly one task
\* and lead to exactly one syncTree when that task runs; only the first
\* call changes the depth (0 to 1), every later call changes nothing.
C9_Coalescing ==
  /\ [](queued <= 1 /\ OneSyncPerBatch)
  /\ [][FirstQueuedStep /\ LaterQueuedStep /\ TaskRunsStep]_vars

\* MaxCalls calls of QueuedUpdate have been made from depth 0, the task
\* they posted has not run yet, and the client has no update open
C9_Witness ==
  /\ ctl = "idle"
  /\ MaxCalls >= 2
  /\ qCalls = MaxCalls
  /\ queued = 1
  /\ clientDepth = 0
  /\ m_updating = 1
  /\ syncCalls = 0

\* C10 (at most one pending deferred reconciliation): in any interleaving
\* of matched client beginUpdate / endUpdate calls, QueuedUpdate calls and
\* runs of the deferred task, at most one deferred task is pending in
\* every reachable state, and a QueuedUpdate call at depth > 0 changes
\* neither the depth nor the pending tasks.
C10_OnePending ==
  /\ [](queued \in {0, 1} /\ DepthAccounted)
  /\ [][(qCalls' = qCalls + 1 /\ m_updating > 0) =>
          (m_updating' = m_updating /\ queued' = queued)]_vars

\* QueuedUpdate has been called more than once while the client holds an
\* update open and a deferred task is pending
C10_Witness ==
  /\ ctl = "idle"
  /\ qCalls >= 2
  /\ queued = 1
  /\ clientDepth >= 1
  /\ m_updating = clientDepth + 1

\* the item identities met on the way from the root of t to the node at path
RECURSIVE ItemPath(_, _)
ItemPath(t, path) ==
  IF path = << >> THEN << >>
  ELSE << t.children[Head(path)].item >>
         \o ItemPath(t.children[Head(path)], Tail(path))

\* the node of t reached by following the item identities in its, or
\* BadNode when some level holds no valid node with that identity
RECURSIVE NodeByItems(_, _)
NodeByItems(t, its) ==
  IF its = << >> THEN t
  ELSE LET hits == { i \in 1 .. Len(t.children) :
                       t.children[i].valid /\ t.children[i].item = Head(its) }
       IN IF hits = {} THEN BadNode
          ELSE NodeByItems(t.children[CHOOSE i \in hits : TRUE], Tail(its))

\* the node at path is one the running reconciliation kept, and when the
\* reconciliation began it was unloaded with a recorded hasChildren answer
\* of false, while its item now has live children
PresenceOutdated(path) ==
  LET n == NodeAt(root, path)
      o == NodeByItems(pre, ItemPath(root, path))
  IN /\ path # << >>
     /\ n.valid
     /\ ~n.created
     /\ o.valid
     /\ ~o.childInitialized
     /\ o.hasChildrenQueryed
     /\ ~o.hasChildren
     /\ hasItems(live, n.item)

\* the children of the node at path are newly created nodes for the live
\* children of its item, one each and in order, and the node is loaded
ChildrenInserted(path) ==
  LET n == NodeAt(root, path)
  IN /\ n.childInitialized
     /\ ItemsOf(n) = live[n.item]
     /\ \A i \in 1 .. Len(n.children) :
          /\ n.children[i].valid
          /\ n.children[i].created
          /\ n.children[i].parentIndex = i - 1

\* C11 (presence correction): when hasChildren answered false for a node
\* whose children were not loaded and the source afterwards gained children
\* under its item, the next reconciliation that matches the node emits one
\* insert-range for the live children, creates one child node for each of
\* them and leaves the node with childInitialized = true.
C11_PresenceCorrection ==
  /\ (AtReturn /\ PresenceOutdated(Top.node)) =>
       /\ ItemsOf(NodeAt(root, Top.node)) = live[Top.parent]
       /\ EventsAt(Top.node) =
            << Signal("beginInsertRows", Top.node, 0,
                      getItemsCount(live, Top.parent) - 1),
               Signal("endInsertRows", Top.node, -1, -1) >>
  /\ SyncTreeReturned =>
       \A p \in PathsOf(root) : PresenceOutdated(p) => ChildrenInserted(p)

\* a reconciliation has returned that kept a node with an outdated
\* hasChildren answer of false and gave it its live children
C11_Witness ==
  /\ SyncTreeReturned
  /\ \E p \in PathsOf(root) :
       /\ PresenceOutdated(p)
       /\ ChildrenInserted(p)
       /\ Len(EventsAt(p)) = 2

\* C12 (stale read): whenever data(index, role) returns in a state with
\* m_updating > 0 (a batch is open, a QueuedUpdate waits for its deferred
\* task, or a reconciliation is running inside endUpdate) its result is
\* the empty value and the adapter's data was not called; with m_updating
\* = 0 and a valid index the result is the adapter's payload for the
\* item of the node the index points to.
C12_StaleRead ==
  ret.op = "data" =>
    /\ m_updating > 0 => (ret.value = Empty /\ ~ret.asked)
    /\ (m_updating = 0 /\ ret.arg # << >>) =>
         /\ ret.value = Payload(NodeAt(root, ret.arg).item, ret.role)
         /\ ret.asked

\* data has returned for a valid index while a reconciliation is running
C12_Witness ==
  /\ ret.op = "data"
  /\ ret.arg # << >>
  /\ Running
  /\ events # << >>
  /\ m_updating = 1
  /\ ret.value = Empty

RECURSIVE ChainFails(_, _, _)
\* some item on the ancestor chain of item reports itself as its own
\* parent, or is not found in the live list of its parent
ChainFails(src, loops, item) ==
  LET parentItem == getItemParent(loops, item)
  IN IF parentItem = item THEN TRUE
     ELSE IF parentItem = NullItem THEN FALSE
     ELSE \/ indexOf(src, Listed(parentItem), item, 0) < 0
          \/ ChainFails(src, loops, parentItem)

\* C13 (resolveByItem failure is a value): whenever some item on the
\* ancestor chain of item reports itself as its own parent, or indexOf
\* fails at some level of the chain (the item, its parent or a higher
\* ancestor), getItemNode(item) returns nullptr and getItemIndex(item) the
\* invalid index, without a call through a missing node.
C13_NotFoundIsValue ==
  (ret.op = "getItemNode" /\ ChainFails(live, ret.loops, ret.arg)) =>
    /\ ret.kind = "null"
    /\ ret.index = << >>
    /\ ctl # "crashed"

\* C15 (resolveByItem returns the right node): whenever getItemNode(item)
\* returns a pointer for a non-root item whose ancestor chain is found at
\* every level, the source having mutated since the last reconciliation or
\* not, the pointer is an element of the parent's children within bounds
\* and the node it points to has the identity item.
C15_RightNode ==
  (/\ ret.op = "getItemNode"
   /\ ret.arg \in Items
   /\ ~ChainFails(live, ret.loops, ret.arg)) =>
    /\ ret.kind = "node"
    /\ ret.path # << >>
    /\ NodeAt(root, ret.path).item = ret.arg

\* the full-refresh notification
FullRefresh == Signal("dataChanged", << >>, -1, -1)
\* the signals in evs are insert / remove notifications only
Structural(evs) == \A i \in 1 .. Len(evs) : evs[i].kind # "dataChanged"

\* endUpdate has run the reconciliation with the depth still 1; the depth
\* is 0 once the full refresh is out, which then is the last signal
DepthAroundSync ==
  /\ ctl = "syncTree" => (m_updating = 1 /\ Structural(events))
  /\ ctl = "refresh" =>
       /\ m_updating = 0
       /\ events # << >>
       /\ events[Len(events)] = FullRefresh
       /\ Structural(SubSeq(events, 1, Len(events) - 1))
  /\ ctl = "idle" => events = << >>

\* an endUpdate entered at depth > 1 lowers the depth and emits nothing
InnerEndStep ==
  (ctl = "idle" /\ m_updating > 1 /\ m_updating' < m_updating) =>
    /\ m_updating' = m_updating - 1
    /\ ctl' = "idle"
    /\ events' = << >>
    /\ UNCHANGED << root, stack, m_syncing >>

\* an endUpdate entered at depth 1 starts syncTree and keeps the depth
OuterEndStep ==
  (ctl = "idle" /\ m_updating = 1 /\ (clientDepth' < clientDepth \/ queued' < queued)) =>
    /\ ctl' = "syncTree"
    /\ m_updating' = 1
    /\ events' = << >>

\* the depth falls to 0 only after syncTree has returned, and the full
\* refresh follows the decrement
RefreshStep ==
  m_updating' < m_updating /\ m_updating = 1 =>
    /\ ctl = "syncTree"
    /\ stack = << >>
    /\ m_updating' = 0
    /\ ctl' = "refresh"
    /\ events' = Append(events, FullRefresh)

\* C14 (endUpdate ordering): an endUpdate entered at depth 1 runs the
\* whole-tree reconciliation while the depth is still 1, then lowers the
\* depth to 0 and only then emits dataChanged, so every insert / remove
\* signal of the reconciliation precedes the full refresh; an endUpdate
\* entered at depth > 1 only lowers the depth and emits neither.
C14_EndUpdateOrdering ==
  /\ []DepthAroundSync
  /\ [][InnerEndStep /\ OuterEndStep /\ RefreshStep]_vars

\* endUpdate has emitted the full refresh after a reconciliation that
\* emitted insert or remove signals
C14_Witness ==
  /\ ctl = "refresh"
  /\ m_updating = 0
  /\ Len(events) >= 3
  /\ events[Len(events)] = FullRefresh

\* the nodes of t whose children have been materialized
Materialized(t) == { p \in PathsOf(t) : NodeAt(t, p).childInitialized }

\* C16 (whole-tree propagation): when syncTree has completed, every node
\* of the shadow tree with childInitialized, at any depth, has children
\* whose item identities equal, in order, the live children of its item.
C16_WholeTree ==
  SyncTreeReturned =>
    \A p \in Materialized(root) :
      ItemsOf(NodeAt(root, p)) = live[NodeAt(root, p).item]

IsBegin(e) == e.kind \in {"beginRemoveRows", "beginInsertRows"}
EndOf(e) == IF e.kind = "beginRemoveRows" THEN "endRemoveRows" ELSE "endInsertRows"
LastEvent == events[Len(events)]
\* a begin notification is out and its end notification is not
BracketOpen == events # << >> /\ IsBegin(LastEvent)

\* the step changes some node's children sequence during a reconciliation
ChildrenChange == ctl = "syncTree" /\ Shape(root') # Shape(root)

\* the step destroys exactly the nodes at first .. last of the node at p
Destroys(p, first, last) ==
  LET old == NodeAt(root, p).children
  IN /\ 0 <= first /\ first <= last /\ last < Len(old)
     /\ Shape(root') =
          Shape(SetAt(root, p,
                  [NodeAt(root, p) EXCEPT
                     !.children = SubSeq(old, 1, first) \o
                                  SubSeq(old, last + 2, Len(old))]))

\* the step creates nodes exactly at first .. last of the node at p
Creates(p, first, last) ==
  LET old == NodeAt(root, p).children
      new == NodeAt(root', p).children
      k == last - first + 1
  IN /\ 0 <= first /\ first <= last /\ first <= Len(old)
     /\ Len(new) = Len(old) + k
     /\ \A i \in 1 .. Len(new) :
          IF i <= first THEN Shape(new[i]) = Shape(old[i])
          ELSE IF i <= first + k THEN new[i].valid /\ new[i].created
          ELSE Shape(new[i]) = Shape(old[i - k])
     /\ Shape(SetAt(root', p, NodeAt(root, p))) = Shape(root)

\* every change of a children sequence lies inside a bracket whose begin
\* notification names the parent and the range of the change
ChangeInBracket ==
  ChildrenChange =>
    /\ BracketOpen
    /\ IF LastEvent.kind = "beginRemoveRows"
       THEN Destroys(LastEvent.node, LastEvent.first, LastEvent.last)
       ELSE Creates(LastEvent.node, LastEvent.first, LastEvent.last)

\* begin and end notifications alternate, each end closing the begin
\* before it about the same node
Paired ==
  ctl = "syncTree" =>
    \A i \in 1 .. Len(events) :
      IF i % 2 = 1 THEN IsBegin(events[i])
      ELSE /\ events[i].kind = EndOf(events[i - 1])
           /\ events[i].node = events[i - 1].node

\* the recursive call starts with no bracket open
DescendOutside == (ctl = "syncTree" /\ Len(stack') > Len(stack)) => ~BracketOpen

\* the begin notifications about one node come in non-decreasing order of
\* position
Ascending ==
  \A i, j \in 1 .. Len(events) :
    (i < j /\ IsBegin(events[i]) /\ IsBegin(events[j])
       /\ events[i].node = events[j].node) => events[i].first <= events[j].first

\* C17 (event bracketing and order): during a reconciliation every change
\* of a node's children sequence happens between a begin notification and
\* its end notification; the parent and [first, last] of the begin
\* notification are the parent and the cache indices of the nodes
\* destroyed or created inside the bracket; brackets are never nested or
\* interleaved, the recursive reconcile starting only after the bracket
\* is closed; the notifications of one pass come in non-decreasing order
\* of cache position.
C17_Bracketing ==
  /\ [](Paired /\ Ascending)
  /\ [][ChangeInBracket /\ DescendOutside]_vars

\* hasChildren has answered in this step for the node at path p as the
\* per-node rule says: from the children when they are loaded, otherwise
\* from the adapter's hasItems, recording the probe and leaving children
\* and childInitialized alone
AnsweredByNode(p) ==
  LET n == NodeAt(root, p)
  IN IF n.childInitialized
     THEN /\ ret'.value = (Len(n.children) > 0)
          /\ root' = root
     ELSE /\ ret'.value = hasItems(live, n.item)
          /\ root' = SetAt(root, p, [n EXCEPT !.hasChildrenQueryed = TRUE,
                                              !.hasChildren = ret'.value])
          /\ NodeAt(root', p).children = n.children
          /\ ~NodeAt(root', p).childInitialized

\* C18 as stated (hasPresence result): for every node, the root included,
\* hasChildren answers by the per-node rule.
C18_PresenceAsClaimed ==
  [][ret'.op = "hasChildren" => AnsweredByNode(ret'.arg)]_vars

\* C18 amended: for every node but the root hasChildren answers by the
\* per-node rule (children non-empty when loaded; otherwise the adapter's
\* hasItems, recorded in hasChildrenQueryed / hasChildren, with children
\* and childInitialized unchanged); for the root (the invalid index) it
\* answers true whatever the root's children are, and changes nothing.
C18_PresenceAmended ==
  [][ret'.op = "hasChildren" =>
       IF ret'.arg = << >>
       THEN ret'.value = TRUE /\ root' = root
       ELSE AnsweredByNode(ret'.arg)]_vars

\* hasChildren has just answered true for a node whose children are not
\* loaded and has recorded the probe
C18_Witness ==
  /\ ret.op = "hasChildren"
  /\ ret.arg # << >>
  /\ ret.value
  /\ ~NodeAt(root, ret.arg).childInitialized
  /\ NodeAt(root, ret.arg).hasChildrenQueryed
  /\ NodeAt(root, ret.arg).hasChildren
  /\ NodeAt(root, ret.arg).children = << >>

RECURSIVE Height(_)
\* the number of levels below t
Height(t) ==
  IF t.children = << >> THEN 0
  ELSE LET hs == { Height(t.children[i]) : i \in 1 .. Len(t.children) }
       IN 1 + CHOOSE h \in hs : \A g \in hs : g <= h

\* no syncNodeList call is in progress: the pass has returned or the
\* process has ended in it
PassOver == ~Running

\* the calls of syncNodeList in progress are at most one per level of the
\* shadow tree
DepthBounded == Running => Len(stack) <= Height(root) + 1

\* C19 (termination of reconciliation): with the live tree unchanged
\* during the pass, every syncNodeList call that has started comes to an
\* end, and the recursion into loaded children is never deeper than the
\* shadow tree.
C19_Termination ==
  /\ Running ~> PassOver
  /\ []DepthBounded

\* a reconciliation is in a recursive call for a child after having
\* removed and inserted rows
C19_Witness ==
  /\ Running
  /\ Len(stack) = 2
  /\ Len(events) >= 2

\* QueuedUpdate has been called since the last whole-tree reconciliation
\* started (syncTree clears the count)
QueuedCalled == qCalls > 0
\* a whole-tree reconciliation has started after the calls
Reconciled == qCalls = 0

\* C20 (queued updates are eventually reconciled): with the posted task
\* eventually run and every client beginUpdate eventually matched by an
\* endUpdate, after any QueuedUpdate call, made at depth 0 or a no-op at
\* depth > 0, a whole-tree reconciliation eventually runs and the depth
\* eventually returns to 0; the depth is never negative.
C20_QueuedReconciled ==
  /\ QueuedCalled ~> Reconciled
  /\ QueuedCalled ~> (m_updating = 0)
  /\ [](m_updating >= 0)

====
